---- MODULE Spec2Model ----
(***************************************************************************)
(* PDFService.generatePacket (src/src/lib/supabaseClient.ts) together with *)
(* the DocumentService calls it makes (src/src/services/documentService.ts)*)
(* as a state machine.  One invocation runs on the event loop: the         *)
(* synchronous prefix of the call is one step, and every await (each       *)
(* document's exportDocumentAsBase64, getDocumentsByProductType, fetch,    *)
(* response.json / text / arrayBuffer) settles in a step of its own, with  *)
(* the continuation that follows it up to the next await.  Further         *)
(* sections model, in the same way, two interleaved invocations, the       *)
(* presenter (previewPDF, downloadPDF), the base64 export of a document,   *)
(* deleteDocument on the table and the bucket, and AuthService; each has   *)
(* its own specification over the shared initial state.                    *)
(***************************************************************************)
EXTENDS Integers, Sequences, FiniteSets, TLC

\* ------------------------------------------------------------------ bounds
MaxSel == 2
MaxOrder == 2

\* --------------------------------------------------------------- constants
workerUrl == "https://pdf-packet-generator.maxterra-pdf-builder.workers.dev"

\* The flag groups of the request's projectData.
StatusFlags == {"forReview", "forApproval", "forRecord", "forInformationOnly"}

SubmittalFlags ==
    {"tds", "threePartSpecs", "testReportIccEsr5194", "testReportIccEsl1645",
     "fireAssembly", "fireAssembly01", "fireAssembly02", "fireAssembly03",
     "msds", "leedGuide", "installationGuide", "warranty", "samples", "other"}

\* A flag group of the form data: absent, or an object whose keys are `keys`
\* and whose true flags are `on`.
AbsentGroup == [present |-> FALSE, keys |-> {}, on |-> {}]

DefaultStatus == [present |-> TRUE, keys |-> StatusFlags, on |-> {}]

DefaultSubmittalType == [present |-> TRUE, keys |-> SubmittalFlags, on |-> {}]

\* The form data's group taken as it is.
OrDefault_AsGiven(group, default) == group

\* `formData.status || {...}` : an absent group is falsy, an object is truthy.
OrDefault(group, default) == IF group.present THEN group ELSE default

\* ------------------------------------------------------ the stored documents
\* The Document a selection entry at position p of the caller's list wraps.
\* extractDocumentName gives every document of one type the same name, so
\* two documents may share a display name.
DocName(p) == IF p % 2 = 1 THEN "Technical Data Sheet" ELSE "Evaluation Report"

DocUrl(p) == IF p % 2 = 1 THEN "https://store/documents/odd.pdf"
                           ELSE "https://store/documents/even.pdf"

DocType(p) == IF p % 2 = 1 THEN "TDS" ELSE "ESR"

\* The bytes stored for the document.
DocContent(p) == IF p % 2 = 1 THEN <<37, 80, 68, 70>> ELSE <<37, 80, 68, 70, 45>>

Document(p) == [id |-> p, name |-> DocName(p), url |-> DocUrl(p), type |-> DocType(p)]

\* A SelectedDocument: id, the wrapped document, selected, order.
SelectedDocument(p, sel, ord) ==
    [id |-> p, document |-> Document(p), selected |-> sel, order |-> ord]

Orders == 1..MaxOrder

\* The selections a caller can pass: position p wraps document p.
Selections ==
    UNION { { [p \in 1..n |-> SelectedDocument(p, f[p][1], f[p][2])] :
                f \in [1..n -> BOOLEAN \X Orders] } : n \in 0..MaxSel }

FormDatas ==
    [projectName : {"Tower A"},
     productType : {"structural-floor"},
     status : {AbsentGroup, [present |-> TRUE, keys |-> StatusFlags, on |-> {"forReview"}]},
     submittalType : {AbsentGroup, [present |-> TRUE, keys |-> SubmittalFlags, on |-> {"tds"}]}]

\* ------------------------------------------------------------ filter / sort
RECURSIVE FilterSelected(_)
\* selectedDocuments.filter(doc => doc.selected)
FilterSelected(s) ==
    IF s = <<>> THEN <<>>
    ELSE IF Head(s).selected THEN <<Head(s)>> \o FilterSelected(Tail(s))
         ELSE FilterSelected(Tail(s))

\* The comparator with its operands exchanged.
CompareOrder_Reversed(a, b) == b.order - a.order

\* The comparator of the sort: (a, b) => a.order - b.order
CompareOrder(a, b) == a.order - b.order

RECURSIVE InsertSorted_BeforeEquals(_, _)
\* x goes before the elements that compare equal to it: an unstable sort.
InsertSorted_BeforeEquals(x, s) ==
    IF s = <<>> THEN <<x>>
    ELSE IF CompareOrder(Head(s), x) < 0
         THEN <<Head(s)>> \o InsertSorted_BeforeEquals(x, Tail(s))
         ELSE <<x>> \o s

RECURSIVE InsertSorted(_, _)
\* x goes after every element that does not compare greater than it, so equal
\* elements keep their sequence (Array.prototype.sort is stable).
InsertSorted(x, s) ==
    IF s = <<>> THEN <<x>>
    ELSE IF CompareOrder(Head(s), x) <= 0 THEN <<Head(s)>> \o InsertSorted(x, Tail(s))
         ELSE <<x>> \o s

RECURSIVE SortByOrder(_)
\* .sort((a, b) => a.order - b.order)
SortByOrder(s) ==
    IF s = <<>> THEN <<>>
    ELSE InsertSorted(s[Len(s)], SortByOrder(SubSeq(s, 1, Len(s) - 1)))

\* The empty check left out.
NoDocumentsSelected_Never(sorted) == FALSE

\* sortedDocs.length === 0
NoDocumentsSelected(sorted) == Len(sorted) = 0

\* ------------------------------------------------------------------ base64
\* The standard base64 text of a byte sequence, as the sequence of its
\* characters' alphabet indexes (0..63), with 64 for the padding '='.
RECURSIVE Base64Encode(_)
Base64Encode(b) ==
    IF Len(b) = 0 THEN <<>>
    ELSE IF Len(b) = 1 THEN
        <<b[1] \div 4, (b[1] % 4) * 16, 64, 64>>
    ELSE IF Len(b) = 2 THEN
        <<b[1] \div 4, (b[1] % 4) * 16 + b[2] \div 16, (b[2] % 16) * 4, 64>>
    ELSE
        <<b[1] \div 4, (b[1] % 4) * 16 + b[2] \div 16,
          (b[2] % 16) * 4 + b[3] \div 64, b[3] % 64>>
        \o Base64Encode(SubSeq(b, 4, Len(b)))

\* The base64 alphabet; the character of index n is Base64Alphabet[n + 1].
Base64Alphabet ==
    <<"A", "B", "C", "D", "E", "F", "G", "H", "I", "J", "K", "L", "M",
      "N", "O", "P", "Q", "R", "S", "T", "U", "V", "W", "X", "Y", "Z",
      "a", "b", "c", "d", "e", "f", "g", "h", "i", "j", "k", "l", "m",
      "n", "o", "p", "q", "r", "s", "t", "u", "v", "w", "x", "y", "z",
      "0", "1", "2", "3", "4", "5", "6", "7", "8", "9", "+", "/">>

\* The base64 text of a byte sequence, as the sequence of its characters.
Base64Text(b) ==
    LET enc == Base64Encode(b) IN
    [i \in 1..Len(enc) |-> IF enc[i] = 64 THEN "=" ELSE Base64Alphabet[enc[i] + 1]]

\* reader.readAsDataURL(blob): the data URL of a blob of this type, as the
\* sequence of its header's parts and the characters of the base64 text.
ReadAsDataURL(bytes, type) == <<"data:", type, ";base64", ",">> \o Base64Text(bytes)

\* The least element of a non-empty set of numbers.
Least(S) == CHOOSE x \in S : \A y \in S : x <= y

\* The data URL as it is, not split.
DataUrlPayload_Unsplit(url) == url

\* base64.split(',')[1]: what stands between the first comma and the next
\* one, or the end.
DataUrlPayload(url) ==
    LET commas == {i \in DOMAIN url : url[i] = ","} IN
    IF commas = {} THEN <<>>
    ELSE LET first == Least(commas)
             later == {i \in commas : i > first}
             last  == IF later = {} THEN Len(url) ELSE Least(later) - 1
         IN SubSeq(url, first + 1, last)

\* The text exportDocumentAsBase64 resolves with for a downloaded blob of
\* these bytes (the bucket serves every object as application/pdf).
EncodeContent(bytes) == DataUrlPayload(ReadAsDataURL(bytes, "application/pdf"))

\* ------------------------------------------------------------ error values
\* A thrown value: its class (`Object` is a plain object that is not an
\* instance of Error) and its message as the sequence of the message's parts.
Err(cls, msg) == [cls |-> cls, msg |-> msg]

NoErr == Err("none", <<>>)

IsError(e) == e.cls \in {"Error", "TypeError", "SyntaxError"}

\* The texts of the model that contain the substring 'fetch'.
ContainsFetch(text) ==
    text \in {"Failed to fetch", "NetworkError when attempting to fetch resource."}

\* error.message.includes('fetch')
MessageIncludesFetch(msg) == \E i \in 1..Len(msg) : ContainsFetch(msg[i])

EmptySelectionError == Err("Error", <<"No documents selected for packet generation">>)

DocumentProcessingError(name) == Err("Error", <<"Failed to process document: ", name>>)

EmptyArtifactError == Err("Error", <<"Received empty PDF from worker">>)

RendererUnreachableError ==
    Err("Error", <<"Cannot connect to PDF Worker at ", workerUrl, ". ",
                   "Please check your internet connection and make sure the worker is running.">>)

GenericError == Err("Error", <<"Failed to generate PDF packet">>)

\* The catch block of generatePacket: what the caller receives for `error`.
CatchAll(error) ==
    IF error.cls = "TypeError" /\ MessageIncludesFetch(error.msg)
    THEN RendererUnreachableError
    ELSE IF IsError(error) THEN error ELSE GenericError

\* --------------------------------------------------- exportDocumentAsBase64
\* What the document store and the file reader do for one call.
StoreResponses == {"ok", "noDocument", "fetchThrows", "getDocumentError", "readerError"}

\* The promise exportDocumentAsBase64(id) settles with: a base64 text, null,
\* or a rejection.
exportDocumentAsBase64(id, env) ==
    CASE env = "getDocumentError" -> [kind |-> "throw", data |-> <<>>]
      [] env = "noDocument"       -> [kind |-> "null", data |-> <<>>]
      [] env = "fetchThrows"      -> [kind |-> "null", data |-> <<>>]
      [] env = "readerError"      -> [kind |-> "throw", data |-> <<>>]
      [] env = "ok"               -> [kind |-> "value", data |-> EncodeContent(DocContent(id))]

\* fileData: fileData || undefined   (null and the empty text are falsy)
FileDataOrUndefined(res) ==
    IF res.kind = "value" /\ res.data # <<>>
    THEN [present |-> TRUE, data |-> res.data]
    ELSE [present |-> FALSE, data |-> <<>>]

\* The object the map callback returns for doc when the export did not throw.
DocumentEntry(doc, res) ==
    [id |-> doc.id, name |-> doc.document.name, url |-> doc.document.url,
     type |-> doc.document.type, fileData |-> FileDataOrUndefined(res)]

\* Only the first callback's export is started.
StartRetrievals_OnlyFirst(sorted) ==
    [i \in 1..Len(sorted) |-> IF i = 1 THEN "pending" ELSE "notStarted"]

\* sortedDocs.map(async doc => ...) calls every callback before Promise.all
\* awaits: each export is in flight when the call suspends.
StartRetrievals(sorted) == [i \in 1..Len(sorted) |-> "pending"]

\* ----------------------------------------------------------- request shape
NoFormData ==
    [projectName |-> "", productType |-> "", status |-> AbsentGroup,
     submittalType |-> AbsentGroup]

\* projectData: {...formData, status: formData.status || {...},
\*               submittalType: formData.submittalType || {...}}
ProjectData(fd) ==
    [fd EXCEPT !.status = OrDefault(@, DefaultStatus),
               !.submittalType = OrDefault(@, DefaultSubmittalType)]

BuildPayload(fd, docs, names, available) ==
    [projectData |-> ProjectData(fd), documents |-> docs,
     selectedDocumentNames |-> names, allAvailableDocuments |-> available]

NoPayload ==
    [projectData |-> NoFormData, documents |-> <<>>,
     selectedDocumentNames |-> <<>>, allAvailableDocuments |-> <<>>]

NoRequest == [sent |-> FALSE, url |-> "", payload |-> NoPayload]

\* ------------------------------------------------- collaborators' answers
\* getDocumentsByProductType: the names of the rows, or `throw error` with the
\* error of the query (a plain PostgrestError object, or an Error instance).
CatalogResults ==
    { [kind |-> "ok", names |-> <<"Technical Data Sheet", "Evaluation Report", "Limited Warranty">>,
       err |-> NoErr],
      [kind |-> "throw", names |-> <<>>,
       err |-> Err("Object", <<"permission denied for table documents">>)],
      [kind |-> "throw", names |-> <<>>,
       err |-> Err("Error", <<"JWT expired">>)] }

NoCatalog == [kind |-> "none", names |-> <<>>, err |-> NoErr]

\* The messages of the TypeError a failed fetch rejects with (Chromium,
\* Gecko, WebKit).
TransportMessages ==
    {"Failed to fetch", "NetworkError when attempting to fetch resource.", "Load failed"}

ErrorBodies ==
    { [fmt |-> "json", hasMessage |-> TRUE, message |-> "boom", text |-> "{\"message\":\"boom\"}"],
      [fmt |-> "json", hasMessage |-> FALSE, message |-> "", text |-> "{\"code\":1}"],
      [fmt |-> "text", hasMessage |-> FALSE, message |-> "", text |-> "upstream timeout"] }

NoBody == [fmt |-> "none", hasMessage |-> FALSE, message |-> "", text |-> ""]

PdfBodies == { <<>>, <<37, 80, 68, 70>> }

\* What fetch settles with: a rejection, or a Response.
FetchResults ==
    { [kind |-> "reject", ok |-> FALSE, status |-> "", statusText |-> "",
       body |-> NoBody, bytes |-> <<>>, err |-> Err("TypeError", <<m>>)] :
         m \in TransportMessages }
    \cup
    { [kind |-> "response", ok |-> FALSE, status |-> "500",
       statusText |-> "Internal Server Error", body |-> b, bytes |-> <<>>, err |-> NoErr] :
         b \in ErrorBodies }
    \cup
    { [kind |-> "response", ok |-> TRUE, status |-> "200", statusText |-> "OK",
       body |-> NoBody, bytes |-> by, err |-> NoErr] : by \in PdfBodies }

NoFetch ==
    [kind |-> "none", ok |-> FALSE, status |-> "", statusText |-> "",
     body |-> NoBody, bytes |-> <<>>, err |-> NoErr]

\* `Worker request failed: ${response.status} ${response.statusText}`
WorkerFailedMessage(resp) == <<"Worker request failed: ", resp.status, " ", resp.statusText>>

\* errorMessage += ` - ${errorData.message || JSON.stringify(errorData)}`
JsonErrorMessage(resp) ==
    WorkerFailedMessage(resp)
        \o <<" - ", IF resp.body.hasMessage THEN resp.body.message ELSE resp.body.text>>

\* errorMessage += ` - ${text}`
TextErrorMessage(resp) == WorkerFailedMessage(resp) \o <<" - ", resp.body.text>>

\* Reading a body that was already read rejects with a TypeError.
BodyUsedError == Err("TypeError", <<"body stream already read">>)

\* The length check left out.
IsEmptyBuffer_Never(buf) == FALSE

\* pdfBuffer.byteLength === 0
IsEmptyBuffer(buf) == Len(buf) = 0

\* -------------------------------------------------------------- outcomes
Pending == [tag |-> "pending", bytes |-> <<>>, err |-> NoErr]

Returned(bytes) == [tag |-> "returned", bytes |-> bytes, err |-> NoErr]

Threw(e) == [tag |-> "threw", bytes |-> <<>>, err |-> e]

\* ------------------------------------------------------------------ state
VARIABLES
    pc,                 \* where the invocation is suspended
    formData,           \* argument of the call
    selectedDocuments,  \* argument of the call
    sortedDocs,         \* the filtered and sorted selection
    exported,           \* per sortedDocs index: "pending", or how its export settled
    completed,          \* the indexes of sortedDocs in the order their exports settled
    documentsWithData,  \* what Promise.all resolved with
    catalog,            \* how getDocumentsByProductType settled
    request,            \* the request sent to the renderer
    response,           \* how fetch settled
    bodyUsed,           \* whether the response's body has been read
    outcome,            \* what the caller of generatePacket got
    contentCalls,       \* calls of exportDocumentAsBase64
    catalogCalls,       \* calls of getDocumentsByProductType
    rendererCalls       \* calls of fetch on the renderer endpoint

packetVars ==
    <<pc, formData, selectedDocuments, sortedDocs, exported, completed,
      documentsWithData, catalog, request, response, bodyUsed, outcome,
      contentCalls, catalogCalls, rendererCalls>>

\* The names of the selected entries in the caller's sequence.
SelectedDocumentNames_Unsorted(sorted) ==
    LET sel == FilterSelected(selectedDocuments) IN
    [i \in 1..Len(sel) |-> sel[i].document.name]

\* sortedDocs.map(doc => doc.document.name)
SelectedDocumentNames(sorted) == [i \in 1..Len(sorted) |-> sorted[i].document.name]

\* The results collected in the order in which the exports settled.
PromiseAllResults_ByCompletion(sorted, exp) ==
    [i \in 1..Len(sorted) |->
        DocumentEntry(sorted[completed'[i]],
                      exportDocumentAsBase64(sorted[completed'[i]].document.id,
                                             exp[completed'[i]]))]

\* What Promise.all resolves with: the callbacks' results by position.
PromiseAllResults(sorted, exp) ==
    [i \in 1..Len(sorted) |->
        DocumentEntry(sorted[i], exportDocumentAsBase64(sorted[i].document.id, exp[i]))]

\* No invocation of generatePacket has been made.
PacketIdle ==
    /\ pc = "idle"
    /\ formData = NoFormData
    /\ selectedDocuments = <<>>
    /\ sortedDocs = <<>>
    /\ exported = <<>>
    /\ completed = <<>>
    /\ documentsWithData = <<>>
    /\ catalog = NoCatalog
    /\ request = NoRequest
    /\ response = NoFetch
    /\ bodyUsed = FALSE
    /\ outcome = Pending
    /\ contentCalls = 0
    /\ catalogCalls = 0
    /\ rendererCalls = 0

\* The invocation ends: `error` reaches the catch block, which throws.
Fail(error) ==
    /\ outcome' = Threw(CatchAll(error))
    /\ pc' = "done"

\* generatePacket(fd, sel) up to its first await: filter, sort, the empty
\* check, and the start of every document's export.
Call(fd, sel) ==
    /\ pc = "idle"
    /\ formData' = fd
    /\ selectedDocuments' = sel
    /\ LET sorted == SortByOrder(FilterSelected(sel)) IN
        /\ sortedDocs' = sorted
        /\ IF NoDocumentsSelected(sorted)
           THEN /\ Fail(EmptySelectionError)
                /\ UNCHANGED <<exported, contentCalls>>
           ELSE /\ exported' = StartRetrievals(sorted)
                /\ contentCalls' =
                       Cardinality({i \in 1..Len(sorted) : StartRetrievals(sorted)[i] = "pending"})
                /\ pc' = "retrieving"
                /\ UNCHANGED outcome
    /\ UNCHANGED <<completed, documentsWithData, catalog, request, response,
                   bodyUsed, catalogCalls, rendererCalls>>

\* The export of sortedDocs[i] settles as env says.  A rejection is caught by
\* the map callback, which throws the document-processing error: Promise.all
\* rejects and the invocation ends.  (Exports still in flight then settle
\* with nobody listening; they are not followed further.)  When the last
\* export fulfils, Promise.all resolves, the names are computed and
\* getDocumentsByProductType is called.
ExportSettles(i, env) ==
    /\ pc = "retrieving"
    /\ i \in DOMAIN exported
    /\ exported[i] = "pending"
    /\ exported' = [exported EXCEPT ![i] = env]
    /\ completed' = Append(completed, i)
    /\ IF exportDocumentAsBase64(sortedDocs[i].document.id, env).kind = "throw"
       THEN /\ Fail(DocumentProcessingError(sortedDocs[i].document.name))
            /\ UNCHANGED <<documentsWithData, catalogCalls>>
       ELSE IF \A j \in DOMAIN exported : exported'[j] \in StoreResponses
       THEN /\ documentsWithData' = PromiseAllResults(sortedDocs, exported')
            /\ catalogCalls' = catalogCalls + 1
            /\ pc' = "catalog"
            /\ UNCHANGED outcome
       ELSE UNCHANGED <<pc, outcome, documentsWithData, catalogCalls>>
    /\ UNCHANGED <<formData, selectedDocuments, sortedDocs, catalog, request,
                   response, bodyUsed, contentCalls, rendererCalls>>

\* getDocumentsByProductType settles.  On success the payload is built and
\* posted to the renderer; a failure goes to the catch block.
CatalogSettles(res) ==
    /\ pc = "catalog"
    /\ catalog' = res
    /\ IF res.kind = "throw"
       THEN /\ Fail(res.err)
            /\ UNCHANGED <<request, rendererCalls>>
       ELSE /\ request' =
                  [sent |-> TRUE, url |-> workerUrl,
                   payload |-> BuildPayload(formData, documentsWithData,
                                            SelectedDocumentNames(sortedDocs), res.names)]
            /\ rendererCalls' = rendererCalls + 1
            /\ pc' = "fetching"
            /\ UNCHANGED outcome
    /\ UNCHANGED <<formData, selectedDocuments, sortedDocs, exported, completed,
                   documentsWithData, response, bodyUsed, contentCalls, catalogCalls>>

\* fetch settles: a rejection goes to the catch block; a response that is not
\* ok has its body read as JSON, an ok response as an ArrayBuffer.
FetchSettles(res) ==
    /\ pc = "fetching"
    /\ response' = res
    /\ IF res.kind = "reject"
       THEN Fail(res.err)
       ELSE /\ pc' = IF res.ok THEN "arrayBuffer" ELSE "json"
            /\ UNCHANGED outcome
    /\ UNCHANGED <<formData, selectedDocuments, sortedDocs, exported, completed,
                   documentsWithData, catalog, request, bodyUsed, contentCalls,
                   catalogCalls, rendererCalls>>

\* response.json() settles.  It has read the body.  Parsed: the render error
\* is thrown.  Not parsed: the handler calls response.text().
JsonSettles ==
    /\ pc = "json"
    /\ bodyUsed' = TRUE
    /\ IF response.body.fmt = "json"
       THEN Fail(Err("Error", JsonErrorMessage(response)))
       ELSE /\ pc' = "text"
            /\ UNCHANGED outcome
    /\ UNCHANGED <<formData, selectedDocuments, sortedDocs, exported, completed,
                   documentsWithData, catalog, request, response, contentCalls,
                   catalogCalls, rendererCalls>>

\* response.text() settles: with the text when the body is unread, with a
\* TypeError when it was read before.
TextSettles ==
    /\ pc = "text"
    /\ IF bodyUsed
       THEN Fail(BodyUsedError)
       ELSE Fail(Err("Error", TextErrorMessage(response)))
    /\ UNCHANGED <<formData, selectedDocuments, sortedDocs, exported, completed,
                   documentsWithData, catalog, request, response, bodyUsed,
                   contentCalls, catalogCalls, rendererCalls>>

\* response.arrayBuffer() settles with the body's bytes: an empty buffer is an
\* error, anything else is returned.
ArrayBufferSettles ==
    /\ pc = "arrayBuffer"
    /\ bodyUsed' = TRUE
    /\ IF IsEmptyBuffer(response.bytes)
       THEN Fail(EmptyArtifactError)
       ELSE /\ outcome' = Returned(response.bytes)
            /\ pc' = "done"
    /\ UNCHANGED <<formData, selectedDocuments, sortedDocs, exported, completed,
                   documentsWithData, catalog, request, response, contentCalls,
                   catalogCalls, rendererCalls>>

\* ============================================== previewPDF / downloadPDF
\* PDFService.previewPDF and PDFService.downloadPDF.  Text is a sequence of
\* characters.
MaxUrls == 2
MaxStem == 2

Chars == {"r", ".", "p", "d", "f"}

PdfSuffix == <<".", "p", "d", "f">>

Stems == UNION { [1..n -> Chars] : n \in 0..MaxStem }

\* The file names a caller passes: with and without the suffix.
Filenames == Stems \cup { st \o PdfSuffix : st \in Stems }

\* filename.endsWith(suffix)
EndsWith(text, suffix) ==
    /\ Len(text) >= Len(suffix)
    /\ SubSeq(text, Len(text) - Len(suffix) + 1, Len(text)) = suffix

\* The suffix appended whatever the name ends in.
EnsurePdfSuffix_Always(filename) == filename \o PdfSuffix

\* if (!filename.endsWith('.pdf')) { filename += '.pdf' }
EnsurePdfSuffix(filename) ==
    IF ~EndsWith(filename, PdfSuffix) THEN filename \o PdfSuffix ELSE filename

VARIABLES
    page,       \* the document the service runs in: "loaded" or "unloaded"
    handles,    \* the object URLs created, in order: how each was used, whether
                \* it is released, and what its release waits for
    prArg,      \* the filename argument of the last downloadPDF
    prSaved,    \* the save action the last downloadPDF triggered
    prThrew     \* whether the last previewPDF / downloadPDF threw

presenterVars == <<page, handles, prArg, prSaved, prThrew>>

NoSave == [triggered |-> FALSE, filename |-> <<>>]

PresenterIdle ==
    /\ page = "loaded"
    /\ handles = <<>>
    /\ prArg = <<>>
    /\ prSaved = NoSave
    /\ prThrew = FALSE

Handle(path, wait) == [path |-> path, released |-> FALSE, wait |-> wait]

\* previewPDF(pdfBytes).  `materializes`: whether new Blob / createObjectURL
\* work; `popup`: whether window.open returned a window.  With a window the
\* release is left to its onload handler; without one the current context is
\* navigated to the URL and the release is left to a timer.
PreviewPDF(materializes, popup) ==
    /\ page = "loaded"
    /\ Len(handles) < MaxUrls
    /\ IF ~materializes
       THEN /\ prThrew' = TRUE
            /\ UNCHANGED handles
       ELSE /\ prThrew' = FALSE
            /\ handles' = Append(handles, IF popup THEN Handle("window", "onload")
                                                   ELSE Handle("fallback", "timer"))
    /\ UNCHANGED <<page, prArg, prSaved>>

\* downloadPDF(pdfBytes, filename): the suffix rule, the object URL, the click
\* on the link whose download attribute is the file name, and the timer that
\* removes the link and releases the URL.
DownloadPDF(filename, materializes) ==
    /\ page = "loaded"
    /\ Len(handles) < MaxUrls
    /\ prArg' = filename
    /\ IF ~materializes
       THEN /\ prThrew' = TRUE
            /\ prSaved' = NoSave
            /\ UNCHANGED handles
       ELSE /\ prThrew' = FALSE
            /\ prSaved' = [triggered |-> TRUE, filename |-> EnsurePdfSuffix(filename)]
            /\ handles' = Append(handles, Handle("download", "timer"))
    /\ UNCHANGED page

\* newWindow.onload runs: URL.revokeObjectURL(url)
WindowLoads(h) ==
    /\ page = "loaded"
    /\ h \in DOMAIN handles
    /\ handles[h].wait = "onload"
    /\ handles' = [handles EXCEPT ![h] = [@ EXCEPT !.released = TRUE, !.wait = "none"]]
    /\ UNCHANGED <<page, prArg, prSaved, prThrew>>

\* The opened window goes away before its load event (it is closed, or the
\* PDF is handed to a download): the onload handler never runs.
WindowClosed(h) ==
    /\ page = "loaded"
    /\ h \in DOMAIN handles
    /\ handles[h].wait = "onload"
    /\ handles' = [handles EXCEPT ![h] = [@ EXCEPT !.wait = "none"]]
    /\ UNCHANGED <<page, prArg, prSaved, prThrew>>

\* The setTimeout callback runs: URL.revokeObjectURL(url)
TimerFires(h) ==
    /\ page = "loaded"
    /\ h \in DOMAIN handles
    /\ handles[h].wait = "timer"
    /\ handles' = [handles EXCEPT ![h] = [@ EXCEPT !.released = TRUE, !.wait = "none"]]
    /\ UNCHANGED <<page, prArg, prSaved, prThrew>>

\* The navigation of the current context (window.location.href = url) commits
\* before the timers ran: the document is unloaded, its timers are dropped and
\* the browser releases the object URLs it created.
Unloads ==
    /\ page = "loaded"
    /\ \E h \in DOMAIN handles : handles[h].path = "fallback"
    /\ page' = "unloaded"
    /\ handles' = [h \in DOMAIN handles |->
                      [handles[h] EXCEPT !.released = TRUE, !.wait = "none"]]
    /\ UNCHANGED <<prArg, prSaved, prThrew>>

\* ============================================ the encoding of a document
\* exportDocumentAsBase64 on a document whose stored content is any byte
\* sequence, and the reader of its text.
MaxBytes == 4

ByteValues == {0, 77, 128, 255}

Contents == UNION { [1..n -> ByteValues] : n \in 0..MaxBytes }

ValueOfChar(c) == (CHOOSE i \in DOMAIN Base64Alphabet : Base64Alphabet[i] = c) - 1

AlphabetChars == {Base64Alphabet[i] : i \in DOMAIN Base64Alphabet}

\* A base64 text: groups of four characters of the alphabet, the last group
\* ending in at most two paddings.
IsBase64(t) ==
    /\ Len(t) % 4 = 0
    /\ \A i \in DOMAIN t :
          \/ t[i] \in AlphabetChars
          \/ t[i] = "=" /\ i >= Len(t) - 1 /\ (i = Len(t) \/ t[Len(t)] = "=")

RECURSIVE DecodeGroups(_)
DecodeGroups(t) ==
    IF t = <<>> THEN <<>>
    ELSE LET v1 == ValueOfChar(t[1])
             v2 == ValueOfChar(t[2])
         IN IF t[3] = "=" THEN <<v1 * 4 + v2 \div 16>>
            ELSE LET v3 == ValueOfChar(t[3]) IN
                 IF t[4] = "="
                 THEN <<v1 * 4 + v2 \div 16, (v2 % 16) * 16 + v3 \div 4>>
                 ELSE <<v1 * 4 + v2 \div 16, (v2 % 16) * 16 + v3 \div 4,
                        (v3 % 4) * 64 + ValueOfChar(t[4])>>
                      \o DecodeGroups(SubSeq(t, 5, Len(t)))

\* Decoding from base64: the bytes, or a failure when t is no base64 text.
Base64Decode(t) ==
    IF IsBase64(t) THEN [ok |-> TRUE, bytes |-> DecodeGroups(t)]
    ELSE [ok |-> FALSE, bytes |-> <<>>]

VARIABLES
    cdPc,       \* "idle", "exported", "decoded"
    cdContent,  \* the bytes stored as the document's content
    cdText,     \* the text exportDocumentAsBase64 returned
    cdDecoded   \* what decoding that text gave

codecVars == <<cdPc, cdContent, cdText, cdDecoded>>

CodecIdle ==
    /\ cdPc = "idle"
    /\ cdContent = <<>>
    /\ cdText = <<>>
    /\ cdDecoded = [ok |-> FALSE, bytes |-> <<>>]

\* exportDocumentAsBase64(id) for a document whose content is `bytes`, all
\* store calls succeeding.
CodecExport(bytes) ==
    /\ cdPc = "idle"
    /\ cdContent' = bytes
    /\ cdText' = EncodeContent(bytes)
    /\ cdPc' = "exported"
    /\ UNCHANGED cdDecoded

\* The receiver decodes the text.
CodecDecode ==
    /\ cdPc = "exported"
    /\ cdDecoded' = Base64Decode(cdText)
    /\ cdPc' = "decoded"
    /\ UNCHANGED <<cdContent, cdText>>

\* ======================================================== deleteDocument
\* The documents table and the storage bucket, and one deleteDocument
\* invocation at a time.
MaxStored == 2

StoredIdNames == <<"d1", "d2", "d3", "d4">>

StoredIds == {StoredIdNames[i] : i \in 1..MaxStored}

PublicMarker == "/storage/v1/object/public/documents/"

\* The name uploadDocument gives the object of a document.
ObjectPath(id) == <<"structural-floor/", id, ".pdf">>

\* The URL without the bucket's public prefix.
PublicUrl_NoMarker(path) == <<"https://project.supabase.co">> \o path

\* getPublicUrl(path): the file_url of the row.
PublicUrl(path) == <<"https://project.supabase.co", PublicMarker>> \o path

\* fileUrl.split(marker)[0].
FilePath_First(url) ==
    LET marks == {i \in DOMAIN url : url[i] = PublicMarker} IN
    IF marks = {} THEN url ELSE SubSeq(url, 1, Least(marks) - 1)

\* fileUrl.split(marker)[1]: what follows the first marker, up to the next
\* one or the end; empty (undefined) without a marker.
FilePath(url) ==
    LET marks == {i \in DOMAIN url : url[i] = PublicMarker} IN
    IF marks = {} THEN <<>>
    ELSE LET first == Least(marks)
             later == {i \in marks : i > first}
             last  == IF later = {} THEN Len(url) ELSE Least(later) - 1
         IN SubSeq(url, first + 1, last)

\* What storage.remove([path]) can answer: the object removed; an error; or
\* no error and nothing removed, the delete policy on storage.objects hiding
\* the object from a requester who is not its owner.
RemoveResults == {"removed", "error", "noneRemoved"}

DocumentNotFound == Err("Error", <<"Document not found">>)

StoreError == Err("Object", <<"store request failed">>)

NoCompletion == [tag |-> "none", err |-> NoErr]

Completed == [tag |-> "returned", err |-> NoErr]

Failed(e) == [tag |-> "threw", err |-> e]

VARIABLES
    stRows,         \* the ids that have a row in the documents table
    stBucket,       \* the paths of the objects in the bucket
    stUsed,         \* the ids seen so far (a new row's id is a fresh one)
    dlPc,           \* "idle", "getDocument", "remove", "delete", "done"
    dlId,           \* the id deleteDocument was called with
    dlFilePath,     \* its local filePath
    dlLookup,       \* "none", "data", "error": how getDocument settled
    dlRemoval,      \* "none" or how storage.remove settled
    dlLogged,       \* the removal's error was written to the console
    dlOutcome,      \* how the invocation ended
    dlRowsBefore,   \* the table when the invocation started
    dlBucketBefore  \* the bucket when the invocation started

storeVars == <<stRows, stBucket, stUsed, dlPc, dlId, dlFilePath, dlLookup,
               dlRemoval, dlLogged, dlOutcome, dlRowsBefore, dlBucketBefore>>

StoreIdle ==
    /\ stRows = {}
    /\ stBucket = {}
    /\ stUsed = {}
    /\ dlPc = "idle"
    /\ dlId = ""
    /\ dlFilePath = <<>>
    /\ dlLookup = "none"
    /\ dlRemoval = "none"
    /\ dlLogged = FALSE
    /\ dlOutcome = NoCompletion
    /\ dlRowsBefore = {}
    /\ dlBucketBefore = {}

\* What a successful uploadDocument leaves: the object, and the row whose
\* file_url is the object's public URL.
Uploaded(id) ==
    /\ id \notin stUsed
    /\ stUsed' = stUsed \cup {id}
    /\ stBucket' = stBucket \cup {ObjectPath(id)}
    /\ stRows' = stRows \cup {id}
    /\ UNCHANGED <<dlPc, dlId, dlFilePath, dlLookup, dlRemoval, dlLogged,
                   dlOutcome, dlRowsBefore, dlBucketBefore>>

\* deleteDocument(id), up to the await of getDocument.
DeleteCall(id) ==
    /\ dlPc \in {"idle", "done"}
    /\ dlPc' = "getDocument"
    /\ dlId' = id
    /\ dlFilePath' = <<>>
    /\ dlLookup' = "none"
    /\ dlRemoval' = "none"
    /\ dlLogged' = FALSE
    /\ dlOutcome' = NoCompletion
    /\ dlRowsBefore' = stRows
    /\ dlBucketBefore' = stBucket
    /\ stUsed' = stUsed \cup {id}
    /\ UNCHANGED <<stRows, stBucket>>

\* getDocument settles: its error is thrown on; no row is 'Document not
\* found'; otherwise the path is cut from the row's URL and, when there is
\* one, the object's removal is requested.
GetDocumentSettles(res) ==
    /\ dlPc = "getDocument"
    /\ dlLookup' = res
    /\ IF res = "error"
       THEN /\ dlOutcome' = Failed(StoreError)
            /\ dlPc' = "done"
            /\ UNCHANGED dlFilePath
       ELSE IF dlId \notin stRows
       THEN /\ dlOutcome' = Failed(DocumentNotFound)
            /\ dlPc' = "done"
            /\ UNCHANGED dlFilePath
       ELSE /\ dlFilePath' = FilePath(PublicUrl(ObjectPath(dlId)))
            /\ dlPc' = IF dlFilePath' # <<>> THEN "remove" ELSE "delete"
            /\ UNCHANGED dlOutcome
    /\ UNCHANGED <<stRows, stBucket, stUsed, dlId, dlRemoval, dlLogged,
                   dlRowsBefore, dlBucketBefore>>

\* storage.remove([filePath]) settles; its error is logged only.
RemoveSettles(res) ==
    /\ dlPc = "remove"
    /\ dlRemoval' = res
    /\ stBucket' = IF res = "removed" THEN stBucket \ {dlFilePath} ELSE stBucket
    /\ dlLogged' = (res = "error")
    /\ dlPc' = "delete"
    /\ UNCHANGED <<stRows, stUsed, dlId, dlFilePath, dlLookup, dlOutcome,
                   dlRowsBefore, dlBucketBefore>>

\* The row's delete settles: its error is thrown, otherwise the row is gone
\* and deleteDocument returns.
RowDeleteSettles(res) ==
    /\ dlPc = "delete"
    /\ IF res = "error"
       THEN /\ dlOutcome' = Failed(StoreError)
            /\ UNCHANGED stRows
       ELSE /\ dlOutcome' = Completed
            /\ stRows' = stRows \ {dlId}
    /\ dlPc' = "done"
    /\ UNCHANGED <<stBucket, stUsed, dlId, dlFilePath, dlLookup, dlRemoval,
                   dlLogged, dlRowsBefore, dlBucketBefore>>

\* ======================================================== uploadDocument
\* One uploadDocument invocation at a time on the same table and bucket.
MAX_SIZE == 50 * 1024 * 1024

FileTypes == {"application/pdf", "image/png"}

FileSizes == {1023, 1024, MAX_SIZE, MAX_SIZE + 1}

\* The first five bytes of a file, as characters.
FileHeads ==
    { <<"%", "P", "D", "F", "-">>, <<"%", "P", "D", "G", "-">>,
      <<"G", "I", "F", "8", "9">> }

Files == [type : FileTypes, size : FileSizes, head : FileHeads]

NoFile == [type |-> "", size |-> 0, head |-> <<>>]

PdfSignature == <<"%", "P", "D", "F">>

\* signature.startsWith(prefix)
StartsWith(text, prefix) ==
    /\ Len(text) >= Len(prefix)
    /\ SubSeq(text, 1, Len(prefix)) = prefix

\* The lower size check left out.
TooSmall_Never(size) == FALSE

\* file.size < 1024
TooSmall(size) == size < 1024

\* The checks of validatePDF before its await: the error, or '' when they pass.
CheckTypeAndSize(file) ==
    IF file.type # "application/pdf" THEN "File must be a PDF document"
    ELSE IF file.size > MAX_SIZE THEN "File size exceeds 50MB limit"
    ELSE IF TooSmall(file.size) THEN "File is too small to be a valid PDF"
    ELSE ""

\* The check of validatePDF after the bytes were read (or the read threw).
CheckSignature(file, readThrows) ==
    IF readThrows THEN "Failed to read file"
    ELSE IF ~StartsWith(file.head, PdfSignature)
    THEN "File does not appear to be a valid PDF"
    ELSE ""

NotLoggedIn == Err("Error", <<"You must be logged in to upload documents">>)

UploadFailed == Err("Error", <<"Failed to upload file: ", "storage error">>)

MetadataFailed == Err("Error", <<"Failed to save document metadata: ", "insert error">>)

\* How the removal of the uploaded object can end: as any removal, or with
\* the promise rejected (which .catch(console.error) takes).
CleanupResults == RemoveResults \cup {"rejects"}

VARIABLES
    upPc,            \* "idle", "reading", "getUser", "upload", "insert", "cleanup", "done"
    upFile,          \* the file uploadDocument was called with
    upId,            \* the id the new row gets
    upPath,          \* fileName, the path of the object
    upUrl,           \* publicUrl, the file_url of the row
    upCleanup,       \* "none" or how the removal after a failed insert ended
    upOutcome,       \* how the invocation ended
    upAuthCalls,     \* calls of supabase.auth
    upStorageCalls,  \* calls of supabase.storage
    upDbCalls,       \* calls of supabase.from('documents')
    upRowsBefore,    \* the table when the invocation started
    upBucketBefore   \* the bucket when the invocation started

uploadVars == <<upPc, upFile, upId, upPath, upUrl, upCleanup, upOutcome, upAuthCalls,
                upStorageCalls, upDbCalls, upRowsBefore, upBucketBefore>>

deleteVars == <<dlPc, dlId, dlFilePath, dlLookup, dlRemoval, dlLogged,
                dlOutcome, dlRowsBefore, dlBucketBefore>>

UploadIdle ==
    /\ upPc = "idle"
    /\ upFile = NoFile
    /\ upId = ""
    /\ upPath = <<>>
    /\ upUrl = <<>>
    /\ upCleanup = "none"
    /\ upOutcome = NoCompletion
    /\ upAuthCalls = 0
    /\ upStorageCalls = 0
    /\ upDbCalls = 0
    /\ upRowsBefore = {}
    /\ upBucketBefore = {}

\* uploadDocument throws e.
UploadFails(e) ==
    /\ upOutcome' = Failed(e)
    /\ upPc' = "done"

\* uploadDocument(file), up to the first await inside validatePDF, or to the
\* rejection when the type or the size is refused.  id is the fresh name the
\* object and the row would get.
UploadCall(file, id) ==
    /\ upPc \in {"idle", "done"}
    /\ id \notin stUsed
    /\ stUsed' = stUsed \cup {id}
    /\ upFile' = file
    /\ upId' = id
    /\ upPath' = <<>>
    /\ upUrl' = <<>>
    /\ upCleanup' = "none"
    /\ upAuthCalls' = 0
    /\ upStorageCalls' = 0
    /\ upDbCalls' = 0
    /\ upRowsBefore' = stRows
    /\ upBucketBefore' = stBucket
    /\ IF CheckTypeAndSize(file) # ""
       THEN UploadFails(Err("Error", <<CheckTypeAndSize(file)>>))
       ELSE upPc' = "reading" /\ upOutcome' = NoCompletion
    /\ UNCHANGED <<stRows, stBucket, deleteVars>>

\* file.slice(0, 5).arrayBuffer() settles: the signature is checked and, when
\* it is a PDF's, supabase.auth.getUser() is called.
ReadSettles(readThrows) ==
    /\ upPc = "reading"
    /\ IF CheckSignature(upFile, readThrows) # ""
       THEN /\ UploadFails(Err("Error", <<CheckSignature(upFile, readThrows)>>))
            /\ UNCHANGED upAuthCalls
       ELSE /\ upPc' = "getUser"
            /\ upAuthCalls' = upAuthCalls + 1
            /\ UNCHANGED upOutcome
    /\ UNCHANGED <<stRows, stBucket, stUsed, deleteVars, upFile, upId, upPath, upUrl,
                   upCleanup, upStorageCalls, upDbCalls, upRowsBefore, upBucketBefore>>

\* getUser settles: with a user the object's upload is requested.
GetUserSettles(res) ==
    /\ upPc = "getUser"
    /\ IF res = "user"
       THEN /\ upPath' = ObjectPath(upId)
            /\ upStorageCalls' = upStorageCalls + 1
            /\ upPc' = "upload"
            /\ UNCHANGED upOutcome
       ELSE /\ UploadFails(NotLoggedIn)
            /\ UNCHANGED <<upPath, upStorageCalls>>
    /\ UNCHANGED <<stRows, stBucket, stUsed, deleteVars, upFile, upId, upUrl,
                   upCleanup, upAuthCalls, upDbCalls, upRowsBefore, upBucketBefore>>

\* The object's upload settles: stored, its public URL is taken and the row's
\* insert is requested.
StorageUploadSettles(res) ==
    /\ upPc = "upload"
    /\ IF res = "ok"
       THEN /\ stBucket' = stBucket \cup {upPath}
            /\ upUrl' = PublicUrl(upPath)
            /\ upDbCalls' = upDbCalls + 1
            /\ upPc' = "insert"
            /\ UNCHANGED upOutcome
       ELSE /\ UploadFails(UploadFailed)
            /\ UNCHANGED <<stBucket, upUrl, upDbCalls>>
    /\ UNCHANGED <<stRows, stUsed, deleteVars, upFile, upId, upPath, upCleanup,
                   upAuthCalls, upStorageCalls, upRowsBefore, upBucketBefore>>

\* The row's insert settles: inserted, uploadDocument returns the document;
\* refused, the removal of the uploaded object is requested.
InsertSettles(res) ==
    /\ upPc = "insert"
    /\ IF res = "ok"
       THEN /\ stRows' = stRows \cup {upId}
            /\ upOutcome' = Completed
            /\ upPc' = "done"
            /\ UNCHANGED upStorageCalls
       ELSE /\ upStorageCalls' = upStorageCalls + 1
            /\ upPc' = "cleanup"
            /\ UNCHANGED <<stRows, upOutcome>>
    /\ UNCHANGED <<stBucket, stUsed, deleteVars, upFile, upId, upPath, upUrl,
                   upCleanup, upAuthCalls, upDbCalls, upRowsBefore, upBucketBefore>>

\* The removal of the uploaded object settles, its answer not looked at;
\* uploadDocument throws the insert's failure.
CleanupSettles(res) ==
    /\ upPc = "cleanup"
    /\ upCleanup' = res
    /\ stBucket' = IF res = "removed" THEN stBucket \ {upPath} ELSE stBucket
    /\ UploadFails(MetadataFailed)
    /\ UNCHANGED <<stRows, stUsed, deleteVars, upFile, upId, upPath, upUrl,
                   upAuthCalls, upStorageCalls, upDbCalls, upRowsBefore, upBucketBefore>>

\* =========================================================== AuthService
\* The remote (Supabase) session, the local fallback session, and one
\* invocation at a time of each of signInAdmin, signOut and syncAuth, their
\* steps interleaving at the awaits, with the auth-state-change callback.
MaxEvents == 2

Emails == {"admin@example.com"}

\* A session as the callers see it: whether it has a user, and the user's
\* email ('' when the user has none).
Session(user, email) == [user |-> user, email |-> email]

NoSession == Session(FALSE, "")

RemoteSessions == {NoSession, Session(TRUE, "")} \cup {Session(TRUE, e) : e \in Emails}

\* localStorage without the item of LOCAL_SESSION_KEY.
NoItem == ""

\* setLocalAdminSession(email) on this item: setItem may throw (ok = FALSE),
\* which is ignored.
SetLocalAdminSession(item, email, ok) == IF ok THEN email ELSE item

\* The item stays.
ClearLocalAdminSession_Keeps(item) == item

\* clearLocalAdminSession() on this item.
ClearLocalAdminSession(item) == NoItem

\* getLocalAdminSession() !== null.
IsAuthenticatedWith(item) == item # NoItem

VARIABLES
    remote,      \* the session Supabase holds
    local,       \* the item of LOCAL_SESSION_KEY: NoItem or the email
    subscribed,  \* onAuthStateChange has registered its callback
    events,      \* the sessions of the auth state changes not yet delivered
    siPc,        \* signInAdmin: "idle", "awaiting", "settled", "done"
    siEmail,     \* its email
    siResp,      \* "none", "ok", "error": what signInWithPassword answered
    siOutcome,   \* "none", "returned", "threw"
    soPc,        \* signOut: "idle", "awaiting", "settled", "done"
    soResp,      \* "none", "ok", "error", "rejects"
    soOutcome,   \* "none", "returned", "threw"
    syPc,        \* syncAuth: "idle", "awaiting", "settled", "done"
    syThrew,     \* getSession threw
    sySession,   \* the session getSession answered
    syResult,    \* "none", "true", "false", "threw"
    syHadLocal   \* isAuthenticated() just before syncAuth returned

authVars == <<remote, local, subscribed, events, siPc, siEmail, siResp, siOutcome,
              soPc, soResp, soOutcome, syPc, syThrew, sySession, syResult, syHadLocal>>

AuthIdle ==
    /\ remote = NoSession
    /\ local = NoItem
    /\ subscribed = FALSE
    /\ events = <<>>
    /\ siPc = "idle"
    /\ siEmail = ""
    /\ siResp = "none"
    /\ siOutcome = "none"
    /\ soPc = "idle"
    /\ soResp = "none"
    /\ soOutcome = "none"
    /\ syPc = "idle"
    /\ syThrew = FALSE
    /\ sySession = NoSession
    /\ syResult = "none"
    /\ syHadLocal = FALSE

signInVars == <<siPc, siEmail, siResp, siOutcome>>

signOutVars == <<soPc, soResp, soOutcome>>

syncVars == <<syPc, syThrew, sySession, syResult, syHadLocal>>

\* The remote session becomes s: the subscriber, if any, is notified later.
RemoteBecomes(s) ==
    /\ remote' = s
    /\ events' = IF subscribed THEN Append(events, s) ELSE events

\* There is room for one more notification.
MayNotify == Len(events) < MaxEvents

\* onAuthStateChange(callback) registers the callback.
Subscribe ==
    /\ ~subscribed
    /\ subscribed' = TRUE
    /\ UNCHANGED <<remote, local, events, signInVars, signOutVars, syncVars>>

\* The session changes outside the service (another tab, expiry).
RemoteChanges(s) ==
    /\ s # remote
    /\ MayNotify
    /\ RemoteBecomes(s)
    /\ UNCHANGED <<local, subscribed, signInVars, signOutVars, syncVars>>

\* The registered callback runs for the oldest undelivered change.
AuthCallback(ok) ==
    /\ events # <<>>
    /\ LET session == Head(events) IN
       local' = IF ~session.user THEN ClearLocalAdminSession(local)
                ELSE IF session.email # "" THEN SetLocalAdminSession(local, session.email, ok)
                ELSE local
    /\ events' = Tail(events)
    /\ UNCHANGED <<remote, subscribed, signInVars, signOutVars, syncVars>>

\* signInAdmin(email, password), up to the await.
SignInCall(email) ==
    /\ siPc \in {"idle", "done"}
    /\ siPc' = "awaiting"
    /\ siEmail' = email
    /\ siResp' = "none"
    /\ siOutcome' = "none"
    /\ UNCHANGED <<remote, local, subscribed, events, signOutVars, syncVars>>

\* signInWithPassword settles: accepted, the remote session is the user's.
SignInSettles(res) ==
    /\ siPc = "awaiting"
    /\ siPc' = "settled"
    /\ siResp' = res
    /\ IF res = "ok"
       THEN MayNotify /\ RemoteBecomes(Session(TRUE, siEmail))
       ELSE UNCHANGED <<remote, events>>
    /\ UNCHANGED <<local, subscribed, siEmail, siOutcome, signOutVars, syncVars>>

\* signInAdmin goes on after the await.
SignInContinues(ok) ==
    /\ siPc = "settled"
    /\ siPc' = "done"
    /\ IF siResp = "error"
       THEN siOutcome' = "threw" /\ UNCHANGED local
       ELSE /\ siOutcome' = "returned"
            /\ local' = SetLocalAdminSession(local, siEmail, ok)
    /\ UNCHANGED <<remote, subscribed, events, siEmail, siResp, signOutVars, syncVars>>

\* signOut(), up to the await.
SignOutCall ==
    /\ soPc \in {"idle", "done"}
    /\ soPc' = "awaiting"
    /\ soResp' = "none"
    /\ soOutcome' = "none"
    /\ UNCHANGED <<remote, local, subscribed, events, signInVars, syncVars>>

\* supabase.auth.signOut() settles: the session removed; an error answered
\* and the session kept; or the promise rejected.
SignOutSettles(res) ==
    /\ soPc = "awaiting"
    /\ soPc' = "settled"
    /\ soResp' = res
    /\ IF res = "ok" /\ remote # NoSession
       THEN MayNotify /\ RemoteBecomes(NoSession)
       ELSE UNCHANGED <<remote, events>>
    /\ UNCHANGED <<local, subscribed, soOutcome, signInVars, syncVars>>

\* signOut goes on after the await.
SignOutContinues ==
    /\ soPc = "settled"
    /\ soPc' = "done"
    /\ IF soResp = "rejects"
       THEN soOutcome' = "threw" /\ UNCHANGED local
       ELSE /\ soOutcome' = "returned"
            /\ local' = ClearLocalAdminSession(local)
    /\ UNCHANGED <<remote, subscribed, events, soResp, signInVars, syncVars>>

\* syncAuth(), up to the await.
SyncCall ==
    /\ syPc \in {"idle", "done"}
    /\ syPc' = "awaiting"
    /\ syThrew' = FALSE
    /\ sySession' = NoSession
    /\ syResult' = "none"
    /\ syHadLocal' = FALSE
    /\ UNCHANGED <<remote, local, subscribed, events, signInVars, signOutVars>>

\* getSession settles: with the remote session of this moment, or throwing.
GetSessionSettles(throws) ==
    /\ syPc = "awaiting"
    /\ syPc' = "settled"
    /\ syThrew' = throws
    /\ sySession' = IF throws THEN NoSession ELSE remote
    /\ UNCHANGED <<remote, local, subscribed, events, syResult, syHadLocal,
                   signInVars, signOutVars>>

\* syncAuth goes on after the await, to its return.
SyncContinues(ok) ==
    /\ syPc = "settled"
    /\ syPc' = "done"
    /\ IF ~syThrew /\ sySession.user
       THEN /\ local' = IF sySession.email # ""
                        THEN SetLocalAdminSession(local, sySession.email, ok)
                        ELSE local
            /\ syResult' = "true"
       ELSE /\ local' = ClearLocalAdminSession(local)
            /\ syResult' = "false"
    /\ syHadLocal' = IsAuthenticatedWith(local)
    /\ UNCHANGED <<remote, subscribed, events, syThrew, sySession,
                   signInVars, signOutVars>>

\* ================================== two invocations of generatePacket
\* Two invocations on the one PDFService instance, their steps interleaving
\* at the awaits.  An invocation's local variables live in its frame; what it
\* was called with and what its collaborators answered it is recorded apart.
Invocations == {1, 2}

\* The locals of every invocation kept in one place.
Frame_Shared(k) == Least(Invocations)

\* The frame of invocation k: const and let bindings belong to the call.
Frame(k) == k

PairFormDatas == {fd \in FormDatas : fd.submittalType = AbsentGroup}

\* One document; two documents to be exchanged by the sort; nothing selected.
PairSelections ==
    { <<SelectedDocument(1, TRUE, 1)>>,
      <<SelectedDocument(1, TRUE, 2), SelectedDocument(2, TRUE, 1)>>,
      <<SelectedDocument(1, FALSE, 1)>> }

NoLocals ==
    [formData |-> NoFormData, sortedDocs |-> <<>>, exported |-> <<>>,
     documentsWithData |-> <<>>, response |-> NoFetch, bodyUsed |-> FALSE]

NoGiven == [fd |-> NoFormData, sel |-> <<>>]

NoAnswers == [exports |-> <<>>, order |-> <<>>, catalog |-> NoCatalog, fetch |-> NoFetch]

\* The indexes whose export threw, in the order the exports settled.
ThrowingExports(sorted, ans) ==
    SelectSeq(ans.order,
              LAMBDA i : /\ i \in DOMAIN sorted
                         /\ i \in DOMAIN ans.exports
                         /\ ans.exports[i] \in StoreResponses
                         /\ exportDocumentAsBase64(sorted[i].document.id,
                                                   ans.exports[i]).kind = "throw")

AllExportsSettled(sorted, ans) ==
    /\ DOMAIN ans.exports = DOMAIN sorted
    /\ \A i \in DOMAIN sorted : ans.exports[i] \in StoreResponses

\* The request generatePacket(g.fd, g.sel) sends when it runs alone and its
\* collaborators answer as in ans.
AloneRequest(g, ans) ==
    LET sorted == SortByOrder(FilterSelected(g.sel)) IN
    IF /\ ~NoDocumentsSelected(sorted)
       /\ ThrowingExports(sorted, ans) = <<>>
       /\ AllExportsSettled(sorted, ans)
       /\ ans.catalog.kind = "ok"
    THEN [sent |-> TRUE, url |-> workerUrl,
          payload |-> BuildPayload(g.fd, PromiseAllResults(sorted, ans.exports),
                                   SelectedDocumentNames(sorted), ans.catalog.names)]
    ELSE NoRequest

\* The outcome of generatePacket(g.fd, g.sel) when it runs alone and its
\* collaborators answer as in ans (Pending while answers are missing).
AloneOutcome(g, ans) ==
    LET sorted == SortByOrder(FilterSelected(g.sel))
        thrown == ThrowingExports(sorted, ans)
    IN IF NoDocumentsSelected(sorted) THEN Threw(CatchAll(EmptySelectionError))
       ELSE IF thrown # <<>>
       THEN Threw(CatchAll(DocumentProcessingError(sorted[Head(thrown)].document.name)))
       ELSE IF ~AllExportsSettled(sorted, ans) \/ ans.catalog.kind = "none" THEN Pending
       ELSE IF ans.catalog.kind = "throw" THEN Threw(CatchAll(ans.catalog.err))
       ELSE IF ans.fetch.kind = "none" THEN Pending
       ELSE IF ans.fetch.kind = "reject" THEN Threw(CatchAll(ans.fetch.err))
       ELSE IF ~ans.fetch.ok
       THEN IF ans.fetch.body.fmt = "json"
            THEN Threw(CatchAll(Err("Error", JsonErrorMessage(ans.fetch))))
            ELSE Threw(CatchAll(BodyUsedError))
       ELSE IF IsEmptyBuffer(ans.fetch.bytes) THEN Threw(CatchAll(EmptyArtifactError))
       ELSE Returned(ans.fetch.bytes)

VARIABLES
    ipc,      \* per invocation: where it is suspended
    frame,    \* per frame: the local variables
    sent,     \* per invocation: the request it sent to the renderer
    result,   \* per invocation: what its caller got
    given,    \* per invocation: the arguments of the call
    answers,  \* per invocation: what its collaborators answered
    overlap   \* a step of one invocation came while the other was suspended

pairVars == <<ipc, frame, sent, result, given, answers, overlap>>

PairIdle ==
    /\ ipc = [k \in Invocations |-> "idle"]
    /\ frame = [f \in Invocations |-> NoLocals]
    /\ sent = [k \in Invocations |-> NoRequest]
    /\ result = [k \in Invocations |-> Pending]
    /\ given = [k \in Invocations |-> NoGiven]
    /\ answers = [k \in Invocations |-> NoAnswers]
    /\ overlap = FALSE

\* The locals of invocation k.
Locals(k) == frame[Frame(k)]

\* Invocation k takes a step; the other may be suspended at an await.
Steps(k) ==
    overlap' = (overlap \/ \E j \in Invocations \ {k} : ipc[j] \notin {"idle", "done"})

\* Invocation k ends: `error` reaches the catch block, which throws.
PairFail(k, error) ==
    /\ result' = [result EXCEPT ![k] = Threw(CatchAll(error))]
    /\ ipc' = [ipc EXCEPT ![k] = "done"]

\* Invocation k goes on to the await at `next`.
PairGoes(k, next) ==
    /\ ipc' = [ipc EXCEPT ![k] = next]
    /\ UNCHANGED result

\* Invocation k: generatePacket(fd, sel) up to its first await.
PairCall(k, fd, sel) ==
    /\ ipc[k] = "idle"
    /\ Steps(k)
    /\ given' = [given EXCEPT ![k] = [fd |-> fd, sel |-> sel]]
    /\ LET sorted == SortByOrder(FilterSelected(sel)) IN
        /\ answers' = [answers EXCEPT ![k] =
                          [NoAnswers EXCEPT !.exports = StartRetrievals(sorted)]]
        /\ frame' = [frame EXCEPT ![Frame(k)] =
                        [NoLocals EXCEPT !.formData = fd, !.sortedDocs = sorted,
                                         !.exported = StartRetrievals(sorted)]]
        /\ IF NoDocumentsSelected(sorted)
           THEN PairFail(k, EmptySelectionError)
           ELSE PairGoes(k, "retrieving")
    /\ UNCHANGED sent

\* Invocation k: the export of its sortedDocs[i] settles as env says.
PairExportSettles(k, i, env) ==
    /\ ipc[k] = "retrieving"
    /\ i \in DOMAIN Locals(k).exported
    /\ Locals(k).exported[i] = "pending"
    /\ Steps(k)
    /\ answers' = [answers EXCEPT ![k] =
                      [@ EXCEPT !.exports = IF i \in DOMAIN @
                                            THEN [@ EXCEPT ![i] = env] ELSE @,
                                !.order = Append(@, i)]]
    /\ LET l == Locals(k)
           exp == [l.exported EXCEPT ![i] = env]
       IN IF exportDocumentAsBase64(l.sortedDocs[i].document.id, env).kind = "throw"
          THEN /\ PairFail(k, DocumentProcessingError(l.sortedDocs[i].document.name))
               /\ frame' = [frame EXCEPT ![Frame(k)].exported = exp]
          ELSE IF \A j \in DOMAIN exp : exp[j] \in StoreResponses
          THEN /\ frame' = [frame EXCEPT ![Frame(k)].exported = exp,
                                         ![Frame(k)].documentsWithData =
                                             PromiseAllResults(l.sortedDocs, exp)]
               /\ PairGoes(k, "catalog")
          ELSE /\ frame' = [frame EXCEPT ![Frame(k)].exported = exp]
               /\ UNCHANGED <<ipc, result>>
    /\ UNCHANGED <<sent, given>>

\* Invocation k: getDocumentsByProductType settles.
PairCatalogSettles(k, res) ==
    /\ ipc[k] = "catalog"
    /\ Steps(k)
    /\ answers' = [answers EXCEPT ![k].catalog = res]
    /\ IF res.kind = "throw"
       THEN /\ PairFail(k, res.err)
            /\ UNCHANGED sent
       ELSE /\ sent' = [sent EXCEPT ![k] =
                  [sent |-> TRUE, url |-> workerUrl,
                   payload |-> BuildPayload(Locals(k).formData, Locals(k).documentsWithData,
                                            SelectedDocumentNames(Locals(k).sortedDocs),
                                            res.names)]]
            /\ PairGoes(k, "fetching")
    /\ UNCHANGED <<frame, given>>

\* Invocation k: fetch settles.
PairFetchSettles(k, res) ==
    /\ ipc[k] = "fetching"
    /\ Steps(k)
    /\ answers' = [answers EXCEPT ![k].fetch = res]
    /\ frame' = [frame EXCEPT ![Frame(k)].response = res]
    /\ IF res.kind = "reject"
       THEN PairFail(k, res.err)
       ELSE PairGoes(k, IF res.ok THEN "arrayBuffer" ELSE "json")
    /\ UNCHANGED <<sent, given>>

\* Invocation k: response.json() settles, having read the body.
PairJsonSettles(k) ==
    /\ ipc[k] = "json"
    /\ Steps(k)
    /\ frame' = [frame EXCEPT ![Frame(k)].bodyUsed = TRUE]
    /\ IF Locals(k).response.body.fmt = "json"
       THEN PairFail(k, Err("Error", JsonErrorMessage(Locals(k).response)))
       ELSE PairGoes(k, "text")
    /\ UNCHANGED <<sent, given, answers>>

\* Invocation k: response.text() settles.
PairTextSettles(k) ==
    /\ ipc[k] = "text"
    /\ Steps(k)
    /\ IF Locals(k).bodyUsed
       THEN PairFail(k, BodyUsedError)
       ELSE PairFail(k, Err("Error", TextErrorMessage(Locals(k).response)))
    /\ UNCHANGED <<frame, sent, given, answers>>

\* Invocation k: response.arrayBuffer() settles with the body's bytes.
PairArrayBufferSettles(k) ==
    /\ ipc[k] = "arrayBuffer"
    /\ Steps(k)
    /\ frame' = [frame EXCEPT ![Frame(k)].bodyUsed = TRUE]
    /\ IF IsEmptyBuffer(Locals(k).response.bytes)
       THEN PairFail(k, EmptyArtifactError)
       ELSE /\ result' = [result EXCEPT ![k] = Returned(Locals(k).response.bytes)]
            /\ ipc' = [ipc EXCEPT ![k] = "done"]
    /\ UNCHANGED <<sent, given, answers>>

\* ======================================================= specifications
vars == <<packetVars, presenterVars, codecVars, storeVars, authVars, pairVars, uploadVars>>

\* The state outside generatePacket's invocation, which its steps leave alone.
otherThanPacket == <<presenterVars, codecVars, storeVars, authVars, pairVars, uploadVars>>

otherThanPresenter == <<packetVars, codecVars, storeVars, authVars, pairVars, uploadVars>>

otherThanCodec == <<packetVars, presenterVars, storeVars, authVars, pairVars, uploadVars>>

otherThanStore == <<packetVars, presenterVars, codecVars, authVars, pairVars, uploadVars>>

otherThanAuth == <<packetVars, presenterVars, codecVars, storeVars, pairVars, uploadVars>>

otherThanPair == <<packetVars, presenterVars, codecVars, storeVars, authVars, uploadVars>>

\* Outside the store and uploadDocument's invocation.
otherThanUpload == <<packetVars, presenterVars, codecVars, authVars, pairVars>>

\* Nothing has been called yet.
Init ==
    /\ PacketIdle
    /\ PresenterIdle
    /\ CodecIdle
    /\ StoreIdle
    /\ AuthIdle
    /\ PairIdle
    /\ UploadIdle

Next ==
    \/ \E fd \in FormDatas, sel \in Selections :
          Call(fd, sel) /\ UNCHANGED otherThanPacket
    \/ \E i \in 1..MaxSel, env \in StoreResponses :
          ExportSettles(i, env) /\ UNCHANGED otherThanPacket
    \/ \E res \in CatalogResults : CatalogSettles(res) /\ UNCHANGED otherThanPacket
    \/ \E res \in FetchResults : FetchSettles(res) /\ UNCHANGED otherThanPacket
    \/ JsonSettles /\ UNCHANGED otherThanPacket
    \/ TextSettles /\ UNCHANGED otherThanPacket
    \/ ArrayBufferSettles /\ UNCHANGED otherThanPacket

Spec == Init /\ [][Next]_vars

\* Every external call that is pending returns or fails: each await of the
\* invocation settles.
ExternalCallsSettle ==
    /\ WF_vars(\E i \in 1..MaxSel, env \in StoreResponses :
                  ExportSettles(i, env) /\ UNCHANGED otherThanPacket)
    /\ WF_vars(\E res \in CatalogResults : CatalogSettles(res) /\ UNCHANGED otherThanPacket)
    /\ WF_vars(\E res \in FetchResults : FetchSettles(res) /\ UNCHANGED otherThanPacket)
    /\ WF_vars(JsonSettles /\ UNCHANGED otherThanPacket)
    /\ WF_vars(TextSettles /\ UNCHANGED otherThanPacket)
    /\ WF_vars(ArrayBufferSettles /\ UNCHANGED otherThanPacket)

\* One invocation of generatePacket whose external calls all settle.
FairSpec == Init /\ [][Next]_vars /\ ExternalCallsSettle

\* Calls of previewPDF and downloadPDF, and what follows them.
PresenterNext ==
    \/ \E m \in BOOLEAN, popup \in BOOLEAN :
          PreviewPDF(m, popup) /\ UNCHANGED otherThanPresenter
    \/ \E f \in Filenames, m \in BOOLEAN :
          DownloadPDF(f, m) /\ UNCHANGED otherThanPresenter
    \/ \E h \in 1..MaxUrls : WindowLoads(h) /\ UNCHANGED otherThanPresenter
    \/ \E h \in 1..MaxUrls : WindowClosed(h) /\ UNCHANGED otherThanPresenter
    \/ \E h \in 1..MaxUrls : TimerFires(h) /\ UNCHANGED otherThanPresenter
    \/ Unloads /\ UNCHANGED otherThanPresenter

\* The event loop runs a timer callback that is due, and delivers the load
\* event of a window that is loading.
PresenterFairness ==
    \A h \in 1..MaxUrls :
        /\ WF_vars(TimerFires(h) /\ UNCHANGED otherThanPresenter)
        /\ WF_vars(WindowLoads(h) /\ UNCHANGED otherThanPresenter)

PresenterSpec == Init /\ [][PresenterNext]_vars /\ PresenterFairness

\* A document's content is exported and the text decoded.
CodecNext ==
    \/ \E bytes \in Contents : CodecExport(bytes) /\ UNCHANGED otherThanCodec
    \/ CodecDecode /\ UNCHANGED otherThanCodec

CodecSpec == Init /\ [][CodecNext]_vars

\* Documents are uploaded and deleted.
StoreNext ==
    \/ \E id \in StoredIds : Uploaded(id) /\ UNCHANGED otherThanStore
    \/ \E id \in StoredIds : DeleteCall(id) /\ UNCHANGED otherThanStore
    \/ \E res \in {"data", "error"} : GetDocumentSettles(res) /\ UNCHANGED otherThanStore
    \/ \E res \in RemoveResults : RemoveSettles(res) /\ UNCHANGED otherThanStore
    \/ \E res \in {"ok", "error"} : RowDeleteSettles(res) /\ UNCHANGED otherThanStore

StoreSpec == Init /\ [][StoreNext]_vars

\* The operations of AuthService, interleaved.
AuthNext ==
    \/ Subscribe /\ UNCHANGED otherThanAuth
    \/ \E s \in RemoteSessions : RemoteChanges(s) /\ UNCHANGED otherThanAuth
    \/ \E ok \in BOOLEAN : AuthCallback(ok) /\ UNCHANGED otherThanAuth
    \/ \E email \in Emails : SignInCall(email) /\ UNCHANGED otherThanAuth
    \/ \E res \in {"ok", "error"} : SignInSettles(res) /\ UNCHANGED otherThanAuth
    \/ \E ok \in BOOLEAN : SignInContinues(ok) /\ UNCHANGED otherThanAuth
    \/ SignOutCall /\ UNCHANGED otherThanAuth
    \/ \E res \in {"ok", "error", "rejects"} : SignOutSettles(res) /\ UNCHANGED otherThanAuth
    \/ SignOutContinues /\ UNCHANGED otherThanAuth
    \/ SyncCall /\ UNCHANGED otherThanAuth
    \/ \E throws \in BOOLEAN : GetSessionSettles(throws) /\ UNCHANGED otherThanAuth
    \/ \E ok \in BOOLEAN : SyncContinues(ok) /\ UNCHANGED otherThanAuth

AuthSpec == Init /\ [][AuthNext]_vars

\* The operations of AuthService alone: the session changes only through
\* them, and localStorage takes every write.
AuthOpsNext ==
    \/ Subscribe /\ UNCHANGED otherThanAuth
    \/ AuthCallback(TRUE) /\ UNCHANGED otherThanAuth
    \/ \E email \in Emails : SignInCall(email) /\ UNCHANGED otherThanAuth
    \/ \E res \in {"ok", "error"} : SignInSettles(res) /\ UNCHANGED otherThanAuth
    \/ SignInContinues(TRUE) /\ UNCHANGED otherThanAuth
    \/ SignOutCall /\ UNCHANGED otherThanAuth
    \/ \E res \in {"ok", "error", "rejects"} : SignOutSettles(res) /\ UNCHANGED otherThanAuth
    \/ SignOutContinues /\ UNCHANGED otherThanAuth
    \/ SyncCall /\ UNCHANGED otherThanAuth
    \/ \E throws \in BOOLEAN : GetSessionSettles(throws) /\ UNCHANGED otherThanAuth
    \/ SyncContinues(TRUE) /\ UNCHANGED otherThanAuth

AuthOpsSpec == Init /\ [][AuthOpsNext]_vars

\* The steps of the two invocations, in any order.
PairNext ==
    \E k \in Invocations :
        \/ \E fd \in PairFormDatas, sel \in PairSelections :
               PairCall(k, fd, sel) /\ UNCHANGED otherThanPair
        \/ \E i \in 1..MaxSel, env \in StoreResponses :
               PairExportSettles(k, i, env) /\ UNCHANGED otherThanPair
        \/ \E res \in CatalogResults : PairCatalogSettles(k, res) /\ UNCHANGED otherThanPair
        \/ \E res \in FetchResults : PairFetchSettles(k, res) /\ UNCHANGED otherThanPair
        \/ PairJsonSettles(k) /\ UNCHANGED otherThanPair
        \/ PairTextSettles(k) /\ UNCHANGED otherThanPair
        \/ PairArrayBufferSettles(k) /\ UNCHANGED otherThanPair

PairSpec == Init /\ [][PairNext]_vars

\* Files are uploaded, one after the other.
UploadNext ==
    \/ \E file \in Files, id \in StoredIds : UploadCall(file, id) /\ UNCHANGED otherThanUpload
    \/ \E readThrows \in BOOLEAN : ReadSettles(readThrows) /\ UNCHANGED otherThanUpload
    \/ \E res \in {"user", "noUser", "authError"} : GetUserSettles(res) /\ UNCHANGED otherThanUpload
    \/ \E res \in {"ok", "error"} : StorageUploadSettles(res) /\ UNCHANGED otherThanUpload
    \/ \E res \in {"ok", "error"} : InsertSettles(res) /\ UNCHANGED otherThanUpload
    \/ \E res \in CleanupResults : CleanupSettles(res) /\ UNCHANGED otherThanUpload

UploadSpec == Init /\ [][UploadNext]_vars

\* ------------------------------------------------------------- properties
\* Helpers of the properties below.
NothingSelected == \A p \in DOMAIN selectedDocuments : ~selectedDocuments[p].selected

SelectedIds ==
    {selectedDocuments[p].id : p \in {q \in DOMAIN selectedDocuments : selectedDocuments[q].selected}}

\* The `order` the caller gave the selection entry with this id.
OrderOfId(id) ==
    selectedDocuments[CHOOSE p \in DOMAIN selectedDocuments : selectedDocuments[p].id = id].order

ReqDocs == request.payload.documents

\* One entry per selected entry and none for an unselected one.
ExactlyTheSelected ==
    /\ Len(ReqDocs) = Cardinality(SelectedIds)
    /\ {ReqDocs[i].id : i \in DOMAIN ReqDocs} = SelectedIds

MsgHas(msg, part) == \E i \in DOMAIN msg : msg[i] = part

\* The export of a document failed: the metadata query, the download of the
\* content, or the reading of the downloaded blob.
RetrievalFailed(env) == env \in {"getDocumentError", "fetchThrows", "readerError"}

\* C1 (as claimed): the documents of a sent request are exactly the selected
\* entries, in strictly ascending `order`.
C1_StrictlyAscending ==
    request.sent =>
        /\ ExactlyTheSelected
        /\ \A i, j \in DOMAIN ReqDocs :
              i < j => OrderOfId(ReqDocs[i].id) < OrderOfId(ReqDocs[j].id)

\* C1 (amended): the documents of a sent request are exactly the selected
\* entries, in ascending `order` (never descending); strictly ascending when
\* no two selected entries have the same `order`.
C1_AscendingSelected ==
    request.sent =>
        /\ ExactlyTheSelected
        /\ \A i, j \in DOMAIN ReqDocs :
              i < j => OrderOfId(ReqDocs[i].id) <= OrderOfId(ReqDocs[j].id)
        /\ (\A a, b \in SelectedIds : a # b => OrderOfId(a) # OrderOfId(b))
              => \A i, j \in DOMAIN ReqDocs :
                    i < j => OrderOfId(ReqDocs[i].id) < OrderOfId(ReqDocs[j].id)

\* A request was sent whose two documents were given in the other sequence.
C1_Witness ==
    /\ request.sent
    /\ Len(ReqDocs) = 2
    /\ ReqDocs[1].id = 2
    /\ OrderOfId(2) < OrderOfId(1)

\* C2: a call whose selection is empty or entirely unselected ends at once
\* with the empty-selection error; the document store was not called (no
\* export, no catalog fetch) and nothing was sent to the renderer.
C2_EmptySelectionNoCalls ==
    (pc # "idle" /\ NothingSelected) =>
        /\ pc = "done"
        /\ outcome = Threw(EmptySelectionError)
        /\ contentCalls = 0
        /\ catalogCalls = 0
        /\ rendererCalls = 0
        /\ ~request.sent

\* A call with two entries, both unselected, has ended.
C2_Witness ==
    /\ pc = "done"
    /\ Len(selectedDocuments) = 2
    /\ NothingSelected
    /\ outcome.tag = "threw"

\* C3 (as claimed): once the retrieval of a selected document's content has
\* failed, no request is sent to the renderer, and the call ends with the
\* document-processing error that names a document whose retrieval failed.
C3_RetrievalFailureAborts ==
    (\E i \in DOMAIN exported : RetrievalFailed(exported[i])) =>
        /\ ~request.sent
        /\ rendererCalls = 0
        /\ pc = "done" =>
              \E i \in DOMAIN exported :
                  /\ RetrievalFailed(exported[i])
                  /\ outcome = Threw(DocumentProcessingError(sortedDocs[i].document.name))

\* C4 (as claimed): no sent request follows a failed retrieval of a selected
\* document's content, and the entry of every document whose content was
\* retrieved carries that content.
C4_NoPartialPacket ==
    request.sent =>
        \A i \in DOMAIN sortedDocs :
            /\ ~RetrievalFailed(exported[i])
            /\ exported[i] = "ok" =>
                  ReqDocs[i].fileData =
                      [present |-> TRUE,
                       data |-> Base64Text(DocContent(sortedDocs[i].document.id))]

\* C5 (as claimed): after a response that is not ok the call ends with an
\* error whose message has the status code and the body's message: the
\* `message` field of a JSON body, the raw text otherwise.
C5_RenderErrorCarriesBody ==
    (pc = "done" /\ response.kind = "response" /\ ~response.ok) =>
        /\ outcome.tag = "threw"
        /\ MsgHas(outcome.err.msg, response.status)
        /\ MsgHas(outcome.err.msg,
                  IF response.body.hasMessage THEN response.body.message
                  ELSE response.body.text)

\* C6: an ok response with a zero-length body ends the call with the
\* empty-artifact error, and a returned byte array is never empty.
C6_EmptyArtifactRejected ==
    /\ (pc = "done" /\ response.kind = "response" /\ response.ok /\ Len(response.bytes) = 0)
          => outcome = Threw(EmptyArtifactError)
    /\ outcome.tag = "returned" => Len(outcome.bytes) > 0

\* The renderer answered 200 with no bytes and the call has ended.
C6_Witness ==
    /\ pc = "done"
    /\ response.kind = "response"
    /\ response.ok
    /\ response.bytes = <<>>
    /\ outcome.tag = "threw"

\* C7: a sent request has both flag groups, and a group the form data lacked
\* has every flag of the group, each false.
C7_FlagGroupsDefaulted ==
    request.sent =>
        LET pd == request.payload.projectData IN
        /\ pd.status.present
        /\ pd.submittalType.present
        /\ ~formData.status.present =>
              (pd.status.keys = StatusFlags /\ pd.status.on = {})
        /\ ~formData.submittalType.present =>
              (pd.submittalType.keys = SubmittalFlags /\ pd.submittalType.on = {})

\* A request was sent for form data that had neither group.
C7_Witness ==
    /\ request.sent
    /\ ~formData.status.present
    /\ ~formData.submittalType.present

\* C8 (as claimed): when fetch on the renderer endpoint rejects (the host is
\* not reached) the call ends with the renderer-unreachable error, which
\* carries the endpoint.
C8_TransportFailureUnreachable ==
    (pc = "done" /\ response.kind = "reject") =>
        /\ outcome = Threw(RendererUnreachableError)
        /\ MsgHas(outcome.err.msg, workerUrl)

\* C9 (as claimed): when the catalog fetch fails, the caller gets that very
\* failure, the fetch was made once, and nothing is sent to the renderer.
C9_CatalogFailureAsIs ==
    catalog.kind = "throw" =>
        /\ outcome = Threw(catalog.err)
        /\ catalogCalls = 1
        /\ rendererCalls = 0
        /\ ~request.sent

\* C10: when the call first suspends every selected document's export is in
\* flight; the catalog fetch and the renderer request are only made after
\* every export has settled; and the request lists the documents in the
\* sorted order, whatever the order in which the exports settled.
C10_AwaitAllKeepOrder ==
    /\ (pc # "idle" /\ ~NothingSelected) =>
          /\ contentCalls = Len(sortedDocs)
          /\ DOMAIN exported = 1..Len(sortedDocs)
          /\ \A i \in DOMAIN exported : exported[i] \in StoreResponses \cup {"pending"}
    /\ (catalogCalls > 0 \/ rendererCalls > 0 \/ request.sent) =>
          /\ \A i \in DOMAIN exported : exported[i] \in StoreResponses
          /\ Len(completed) = Len(sortedDocs)
    /\ request.sent =>
          /\ Len(ReqDocs) = Len(sortedDocs)
          /\ \A i \in DOMAIN ReqDocs : ReqDocs[i].id = sortedDocs[i].id

\* A request was sent after the second document's export settled first.
C10_Witness ==
    /\ request.sent
    /\ completed = <<2, 1>>

\* The place of the selection entry with this id in the caller's list.
PositionOfId(id) ==
    CHOOSE p \in DOMAIN selectedDocuments : selectedDocuments[p].id = id

\* C15: selected entries with the same `order` are in the request in the
\* sequence in which the caller's selection has them.
C15_TiesKeepSequence ==
    request.sent =>
        \A i, j \in DOMAIN ReqDocs :
            (i < j /\ OrderOfId(ReqDocs[i].id) = OrderOfId(ReqDocs[j].id))
                => PositionOfId(ReqDocs[i].id) < PositionOfId(ReqDocs[j].id)

\* A request was sent with two documents of the same `order`.
C15_Witness ==
    /\ request.sent
    /\ Len(ReqDocs) = 2
    /\ OrderOfId(ReqDocs[1].id) = OrderOfId(ReqDocs[2].id)

\* C17 (as claimed): an invocation makes at most one export per selected
\* document, one catalog fetch and one renderer request, and once any of
\* them has failed it returns no artifact: it ends in an error.
C17_FailuresSurfaced ==
    /\ contentCalls <= Len(sortedDocs)
    /\ catalogCalls <= 1
    /\ rendererCalls <= 1
    /\ (\/ \E i \in DOMAIN exported : RetrievalFailed(exported[i])
        \/ catalog.kind = "throw"
        \/ response.kind = "reject")
          => /\ outcome.tag # "returned"
             /\ pc = "done" => outcome.tag = "threw"

\* C19: in a sent request selectedDocumentNames is as long as documents and
\* its i-th element is the name of the i-th document.
C19_NamesMatchDocuments ==
    request.sent =>
        LET names == request.payload.selectedDocumentNames IN
        /\ Len(names) = Len(ReqDocs)
        /\ \A i \in DOMAIN ReqDocs : names[i] = ReqDocs[i].name

\* A request was sent whose first document is the caller's second entry, the
\* two having different names.
C19_Witness ==
    /\ request.sent
    /\ Len(ReqDocs) = 2
    /\ ReqDocs[1].name = DocName(2)
    /\ ReqDocs[2].name = DocName(1)
    /\ DocName(1) # DocName(2)

\* C18: when every external call settles, an invocation that was made ends,
\* with an artifact or with an error, and having ended keeps that one outcome.
C18_Terminates ==
    /\ (pc # "idle") ~> (pc = "done")
    /\ [](pc = "done" => outcome.tag \in {"returned", "threw"})
    /\ [](pc # "done" => outcome.tag = "pending")
    /\ [][pc = "done" => (pc' = "done" /\ outcome' = outcome)]_vars

\* An invocation has ended by returning the artifact.
C18_Witness ==
    /\ pc = "done"
    /\ outcome.tag = "returned"
    /\ rendererCalls = 1

\* C12: the save action downloadPDF triggers has a file name that ends in
\* `.pdf`: the argument with `.pdf` appended once when it lacks the suffix,
\* the argument itself when it has it; the suffix rule leaves that name as
\* it is.
C12_PdfSuffixOnce ==
    prSaved.triggered =>
        /\ EndsWith(prSaved.filename, PdfSuffix)
        /\ ~EndsWith(prArg, PdfSuffix) => prSaved.filename = prArg \o PdfSuffix
        /\ EndsWith(prArg, PdfSuffix) => prSaved.filename = prArg
        /\ EnsurePdfSuffix(prSaved.filename) = prSaved.filename

\* A download was triggered for a name that had the suffix.
C12_Witness ==
    /\ prSaved.triggered
    /\ prArg = <<"r", ".", "p", "d", "f">>
    /\ prSaved.filename = prArg

\* C13 (as claimed): every object URL that previewPDF or downloadPDF created
\* is released in the end.
C13_HandlesReleased ==
    \A h \in 1..MaxUrls :
        (h \in DOMAIN handles) ~> (h \in DOMAIN handles /\ handles[h].released)

\* C16: decoding from base64 the text exportDocumentAsBase64 returned for a
\* document gives the bytes stored as its content.
C16_RoundTrip ==
    cdPc = "decoded" => cdDecoded = [ok |-> TRUE, bytes |-> cdContent]

\* The text of a four-byte content (a full group and a padded one) was decoded.
C16_Witness ==
    /\ cdPc = "decoded"
    /\ cdContent = <<255, 0, 77, 128>>
    /\ Len(cdText) = 8
    /\ cdDecoded.ok

\* deleteDocument ended for an id that had no row when it was called.
DeletedMissing == dlPc = "done" /\ dlId \notin dlRowsBefore

\* A missing id fails, with 'Document not found' when the lookup answered,
\* and nothing was removed.
MissingIdRemovesNothing ==
    DeletedMissing =>
        /\ dlOutcome.tag = "threw"
        /\ dlLookup = "data" => dlOutcome.err = DocumentNotFound
        /\ dlRowsBefore \subseteq stRows
        /\ dlBucketBefore \subseteq stBucket

\* C14 as stated: after deleteDocument(id) completed without error neither
\* the row nor the binary content of id remains; a missing id fails with
\* 'Document not found' and removes nothing.
C14_DeleteCascades ==
    /\ (dlPc = "done" /\ dlOutcome.tag = "returned") =>
          /\ dlId \notin stRows
          /\ ObjectPath(dlId) \notin stBucket
    /\ MissingIdRemovesNothing

\* C14: after deleteDocument(id) completed without error the row of id is
\* gone, and its binary content remains only if the removal from the bucket
\* removed nothing (an error, which was logged, or an answer without
\* effect); a missing id fails with 'Document not found' and removes nothing.
C14_DeleteBestEffort ==
    /\ (dlPc = "done" /\ dlOutcome.tag = "returned") =>
          /\ dlId \in dlRowsBefore
          /\ dlId \notin stRows
          /\ ObjectPath(dlId) \in stBucket => dlRemoval \in {"error", "noneRemoved"}
          /\ dlRemoval = "error" => dlLogged
          /\ dlRemoval = "removed" => ObjectPath(dlId) \notin stBucket
    /\ MissingIdRemovesNothing

\* A delete completed without error after the bucket refused the removal:
\* the row is gone, the binary content is still there.
C14_Witness ==
    /\ dlPc = "done"
    /\ dlOutcome.tag = "returned"
    /\ dlRemoval = "error"
    /\ dlLogged
    /\ dlId \notin stRows
    /\ ObjectPath(dlId) \in stBucket

\* This step is syncAuth returning false.
SyncReturnsFalse == syPc = "settled" /\ syPc' = "done" /\ syResult' = "false"

\* This step is signOut completing.
SignOutCompletes == soPc = "settled" /\ soPc' = "done" /\ soOutcome' = "returned"

\* C20: in the step in which syncAuth returns false, and in the step in which
\* signOut completes, the local fallback session ends absent, so that
\* isAuthenticated() is false; and syncAuth never throws.
C20_LocalClearedWhenSignedOut ==
    /\ [][(SyncReturnsFalse \/ SignOutCompletes) => ~IsAuthenticatedWith(local')]_vars
    /\ [](syResult # "threw")

\* syncAuth found no remote session while the local one existed (a sign-in
\* had completed), cleared it and returned false.
C20_Witness ==
    /\ syPc = "done"
    /\ syResult = "false"
    /\ syHadLocal
    /\ ~syThrew
    /\ siOutcome = "returned"
    /\ ~IsAuthenticatedWith(local)

\* A single invocation ends as AloneOutcome and AloneRequest say.
AloneIsTheSingleInvocation ==
    LET g == [fd |-> formData, sel |-> selectedDocuments]
        ans == [exports |-> exported, order |-> completed, catalog |-> catalog,
                fetch |-> response]
    IN /\ request = AloneRequest(g, ans)
       /\ pc = "done" => outcome = AloneOutcome(g, ans)

\* C11: of two invocations whose steps interleave, each sends the request
\* and, once done, has the outcome that generatePacket run alone on its
\* arguments gives for the answers its collaborators gave it.
C11_InvocationsIndependent ==
    \A k \in Invocations :
        /\ sent[k] = AloneRequest(given[k], answers[k])
        /\ ipc[k] = "done" => result[k] = AloneOutcome(given[k], answers[k])

\* Two invocations with different selections overlapped, both sent their
\* request and both returned an artifact.
C11_Witness ==
    /\ overlap
    /\ \A k \in Invocations :
          ipc[k] = "done" /\ result[k].tag = "returned" /\ sent[k].sent
    /\ given[1].sel # given[2].sel
    /\ sent[1].payload # sent[2].payload

\* No operation of AuthService is under way and no notification is pending.
AuthAtRest ==
    /\ siPc \in {"idle", "done"}
    /\ soPc \in {"idle", "done"}
    /\ syPc \in {"idle", "done"}
    /\ events = <<>>

\* C22: at rest, isAuthenticated() is true exactly when the remote session
\* has a user (a rest that follows a sign-out which Supabase answered with
\* an error is left aside).
C22_RepresentationsAgreeAtRest ==
    (AuthAtRest /\ soResp # "error") => (IsAuthenticatedWith(local) <=> remote.user)

\* The file is one the claim says is rejected.
InvalidFile(file) ==
    \/ file.type # "application/pdf"
    \/ file.size > 50 * 1024 * 1024
    \/ file.size < 1024
    \/ ~StartsWith(file.head, PdfSignature)

\* C21: an upload of a file that is not declared application/pdf, is above
\* 50 MiB, is below 1024 bytes or does not start with %PDF makes no
\* authentication, storage or database call, leaves the table and the bucket
\* as they were, and ends rejected.
C21_InvalidFileRejectedFirst ==
    (upPc # "idle" /\ InvalidFile(upFile)) =>
        /\ upPc \in {"reading", "done"}
        /\ upPc = "done" => upOutcome.tag = "threw"
        /\ upAuthCalls = 0 /\ upStorageCalls = 0 /\ upDbCalls = 0
        /\ stRows = upRowsBefore
        /\ stBucket = upBucketBefore

\* A file of the right type and of the smallest allowed size whose bytes are
\* not a PDF's was read and rejected.
C21_Witness ==
    /\ upPc = "done"
    /\ upFile.type = "application/pdf"
    /\ upFile.size = 1024
    /\ ~StartsWith(upFile.head, PdfSignature)
    /\ upOutcome = Failed(Err("Error", <<"File does not appear to be a valid PDF">>))
    /\ upAuthCalls = 0

\* A successful upload left exactly one new row and one new object, the one
\* the row's URL locates.
UploadSucceededWhole ==
    (upPc = "done" /\ upOutcome.tag = "returned") =>
        /\ stRows = upRowsBefore \cup {upId} /\ upId \notin upRowsBefore
        /\ stBucket = upBucketBefore \cup {upPath} /\ upPath \notin upBucketBefore
        /\ FilePath(upUrl) = upPath

\* C23 as stated: an upload that ended in an error left no new row and no
\* new object; a successful one left one new row and the object it locates.
C23_NoOrphanAfterFailure ==
    /\ (upPc = "done" /\ upOutcome.tag = "threw") =>
          /\ stRows = upRowsBefore
          /\ stBucket = upBucketBefore
    /\ UploadSucceededWhole

\* C23: an upload that ended in an error left no new row, and left a new
\* object only when the insert failed after the upload and the removal of
\* the object then removed nothing; a successful one left one new row and
\* the object it locates.
C23_CleanupBestEffort ==
    /\ (upPc = "done" /\ upOutcome.tag = "threw") =>
          /\ stRows = upRowsBefore
          /\ \/ stBucket = upBucketBefore
             \/ /\ stBucket = upBucketBefore \cup {upPath}
                /\ upOutcome.err = MetadataFailed
                /\ upCleanup \in CleanupResults \ {"removed"}
          /\ upCleanup = "removed" => stBucket = upBucketBefore
    /\ UploadSucceededWhole

\* The insert failed after the upload and the removal answered an error:
\* the upload ended in an error with the object left in the bucket.
C23_Witness ==
    /\ upPc = "done"
    /\ upOutcome = Failed(MetadataFailed)
    /\ upCleanup = "error"
    /\ upPath \in stBucket
    /\ upId \notin stRows

====
